---- MODULE Spec2Model ----
(***************************************************************************)
(* The simplified leaky integrate-and-fire cell of                          *)
(* ngclearn/components/neurons/spiking/sLIFCell.py as a state machine.      *)
(*                                                                          *)
(* Representation.  Every float of the source is a fixed-point integer in   *)
(* units of 1/Scale (0.025 is 25, 1.0 is 1000, -3. is -3000); products and  *)
(* quotients of two such numbers are rescaled by Mul and Div.  Spike and    *)
(* mask values are the plain integers 0 and 1.  An array of shape           *)
(* (batch_size, n_units) with batch_size = 1 is a function on 1..n_units;   *)
(* the inhibitory matrix is a function on pairs of units.  None, the        *)
(* Python None of an unset compartment, is the array with no element; the   *)
(* optional scalar v_min of run_cell is a set: {} for None, {x} for x.      *)
(* The floats of apply_surrogate_dfx, which leave the range of the grid,    *)
(* carry in addition whether the float32 is zero, positive or inf.          *)
(*                                                                          *)
(* The variables marked "history" are not state of the cell: they record    *)
(* what the last operation was and what it read, so that properties of one  *)
(* call can be stated on the state it leaves.                               *)
(***************************************************************************)
EXTENDS Integers, FiniteSets, Sequences, TLC

VARIABLES
    cfg,              \* the constructor arguments kept as attributes of the cell
    inh_weights,      \* self.inh_weights
    threshold0,       \* self.threshold0, the frozen baseline
    threshold,        \* compartment 'thr'
    voltage,          \* compartment 'v'
    spikes,           \* compartment 's'
    refract,          \* compartment 'rfr'
    timeOfLastSpike,  \* compartment 'tols'
    current,          \* compartment 'j'
    surrogate,        \* compartment 'surrogate'
    disk,             \* the files written by save: file name -> archive
    clock,            \* the caller's simulation time, the t of the next step
    lastOp,           \* the operation that produced this state
    nsteps,           \* number of advance_state calls made so far
    ncells,           \* number of cells constructed so far
    j_in,             \* history: compartment 'j' as the last step found it
    crossed,          \* history: units that crossed their threshold in the last step
    nresets,          \* history: resets made in a row, counted up to 2
    frozen,           \* history: the array sampled at construction or read by load
    call              \* history: arguments and result of the last direct call of
                      \* apply_surrogate_dfx, None before the first

vars == <<cfg, inh_weights, threshold0, threshold, voltage, spikes, refract,
          timeOfLastSpike, current, surrogate, disk, clock, lastOp, nsteps,
          ncells, j_in, crossed, nresets, frozen, call>>

None == << >>

\* ---------------------------------------------------------------- bounds
MaxSteps == 3
MaxLifeSteps == 2
MaxCells == 2

\* ------------------------------------------------------------ fixed point
Scale == 10 ^ 3
\* (a * b) \div Scale, computed without the wide intermediate product
Mul(a, b) == (a \div Scale) * b + ((a % Scale) * b) \div Scale
Div(a, b) == (a * Scale) \div b
Max(a, b) == IF a >= b THEN a ELSE b

Units == 1 .. cfg.n_units
Zeros == [u \in Units |-> 0]

RECURSIVE SumOver(_, _)
SumOver(f, S) ==
    IF S = {} THEN 0
    ELSE LET u == CHOOSE x \in S : TRUE IN f[u] + SumOver(f, S \ {u})

\* draws of random.uniform(minval=lo, maxval=hi), lo <= x < hi: every value,
\* the two extremes, or the least one only (for a matrix that is never read)
Uniform(draws, lo, hi) ==
    CASE draws = "every" -> lo .. (hi - 1)
      [] draws = "extremes" -> {lo, hi - 1}
      [] draws = "least" -> {lo}

\* ------------------------------------------------------------ update_times
update_times(t, s, tols) ==
    [u \in DOMAIN s |-> (1 - s[u]) * tols[u] + s[u] * t]

\* ----------------------------------------------------- apply_surrogate_dfx
\* The fixed-point grid cannot hold what float32 arithmetic does to large
\* arguments, so a non-negative float32 of this function is a record: fix is
\* its value on the grid, rounded down and capped at FixMax; cls says what
\* the float itself is: "zero", "pos" (finite and positive, possibly far
\* below one grid step) or "inf".
ExpTerms == 12
RECURSIVE ExpSeries(_, _, _, _)
ExpSeries(x, k, term, acc) ==
    IF k > ExpTerms \/ term = 0 THEN acc
    ELSE LET nxt == Mul(term, x) \div k
         IN ExpSeries(x, k + 1, nxt, acc + nxt)

FixMax == 10 ^ 9
Min(a, b) == IF a <= b THEN a ELSE b
\* largest argument whose exponential is kept on the grid (below FixMax)
ExpCap == 13000
\* e^x on the grid: the series up to 2.0, the product of two halves above
RECURSIVE Exp(_)
Exp(x) ==
    IF x < 0 THEN Div(Scale, Exp(-x))
    ELSE IF x > ExpCap THEN FixMax
    ELSE IF x <= 2 * Scale THEN ExpSeries(x, 1, Scale, Scale)
    ELSE Min(FixMax, Mul(Exp(x \div 2), Exp(x - (x \div 2))))

\* ln of the largest finite float32, 3.4028e38: exp returns inf above it
LnFltMax == 88722
\* ln of half the smallest float32, 2^-150: exp returns 0 below it
LnFltMin == -103972

\* jnp.exp on a float32 array element
FExp(x) ==
    [fix |-> Exp(x),
     cls |-> IF x > LnFltMax THEN "inf" ELSE IF x < LnFltMin THEN "zero" ELSE "pos"]
\* a + b of two non-negative floats
FAdd(a, b) ==
    [fix |-> Min(FixMax, a.fix + b.fix),
     cls |-> IF "inf" \in {a.cls, b.cls} THEN "inf"
             ELSE IF "pos" \in {a.cls, b.cls} THEN "pos" ELSE "zero"]
\* a / 2. of a float that is not within a factor 2 of the smallest float
FHalf(a) == [fix |-> a.fix \div 2, cls |-> a.cls]
\* 1. / a for a >= 1: 1/inf is 0, and 1/a is positive for every finite a
FRecip(a) ==
    IF a.cls = "inf" THEN [fix |-> 0, cls |-> "zero"]
    ELSE [fix |-> Div(Scale, a.fix), cls |-> "pos"]
\* a * k for a float a <= 1 and a scalar k that is on the grid; a is at least
\* 1/3.4e38 when it is positive, so that no product with a positive k on the
\* grid rounds to 0
FTimes(a, k) ==
    [fix |-> Mul(a.fix, k),
     cls |-> IF k = 0 \/ a.cls = "zero" THEN "zero" ELSE "pos"]

c1 == 820
c2 == 80

apply_surrogate_dfx(j, cc1, cc2) ==
    [u \in DOMAIN j |->
        LET mask   == IF j[u] > 0 THEN Scale ELSE 0
            dj     == Mul(j[u], cc2)
            cosh_j == FHalf(FAdd(FExp(dj), FExp(-dj)))
            sech_j == FRecip(cosh_j)
            dv_dj  == FTimes(sech_j, Mul(cc1, cc2))
        IN FTimes(dv_dj, mask)]

\* ---------------------------------------------------------- modify_current
\* faulty variant: the product taken with the transposed matrix
MatMul_transposed(s, W) ==
    [k \in DOMAIN s |-> SumOver([i \in DOMAIN s |-> s[i] * W[<<k, i>>]], DOMAIN s)]

\* jnp.matmul(spikes, inh_weights)[k] = sum_i spikes[i] * inh_weights[i][k]
MatMul(s, W) ==
    [k \in DOMAIN s |-> SumOver([i \in DOMAIN s |-> s[i] * W[<<i, k>>]], DOMAIN s)]

\* faulty variant: the inhibitory term added instead of subtracted
modify_current_added(j, s, W, R_m, inh_R) ==
    LET _j == [u \in DOMAIN j |-> Mul(j[u], R_m)]
    IN IF inh_R > 0
       THEN [u \in DOMAIN j |-> _j[u] + Mul(MatMul(s, W)[u], inh_R)]
       ELSE _j

modify_current(j, s, W, R_m, inh_R) ==
    LET _j == [u \in DOMAIN j |-> Mul(j[u], R_m)]
    IN IF inh_R > 0
       THEN [u \in DOMAIN j |-> _j[u] - Mul(MatMul(s, W)[u], inh_R)]
       ELSE _j

\* ---------------------------------------------------------------- run_cell
ThrFloor == 25

\* faulty variant: the mask taken with 'rfr > refract_T'
RefractoryMask_strict(rfr, refract_T) ==
    [u \in DOMAIN rfr |-> IF rfr[u] > refract_T THEN 1 ELSE 0]

RefractoryMask(rfr, refract_T) ==
    [u \in DOMAIN rfr |-> IF rfr[u] >= refract_T THEN 1 ELSE 0]

\* faulty variant: the refractory mask left out of the integration
Integrate_ungated(dt, j, v, tau_m, mask) ==
    [u \in DOMAIN v |-> v[u] + Mul((-v[u]) + j[u], Div(dt, tau_m))]

Integrate(dt, j, v, tau_m, mask) ==
    [u \in DOMAIN v |-> (v[u] + Mul((-v[u]) + j[u], Div(dt, tau_m))) * mask[u]]

\* faulty variant: the floor never applied
FloorVoltage_off(new_voltage, vmin) == new_voltage

FloorVoltage(new_voltage, vmin) ==
    IF vmin # {}
    THEN [u \in DOMAIN new_voltage |->
             Max(CHOOSE x \in vmin : TRUE, new_voltage[u])]
    ELSE new_voltage

EmitSpikes(new_voltage, v_thr) ==
    [u \in DOMAIN new_voltage |-> IF new_voltage[u] > v_thr[u] THEN 1 ELSE 0]

\* faulty variant: a spiking unit keeps its voltage
Hyperpolarize_off(spk, new_voltage) == new_voltage

Hyperpolarize(spk, new_voltage) ==
    [u \in DOMAIN new_voltage |-> (1 - spk[u]) * new_voltage[u]]

\* faulty variant: the sparsity branch without its floor
UpdateThreshold_unfloored(v_thr, spk, thrGain, thrLeak, rho_b) ==
    IF rho_b > 0
    THEN LET dthr == SumOver(spk, DOMAIN spk) - 1
         IN [u \in DOMAIN v_thr |-> v_thr[u] + dthr * rho_b]
    ELSE [u \in DOMAIN v_thr |->
             v_thr[u] + spk[u] * thrGain - Mul(v_thr[u], thrLeak)]

\* faulty variant: gain and leak applied on top of the sparsity update
UpdateThreshold_blended(v_thr, spk, thrGain, thrLeak, rho_b) ==
    [u \in DOMAIN v_thr |->
        LET base == IF rho_b > 0
                    THEN Max(v_thr[u] + (SumOver(spk, DOMAIN spk) - 1) * rho_b, ThrFloor)
                    ELSE v_thr[u]
        IN base + spk[u] * thrGain - Mul(v_thr[u], thrLeak)]

UpdateThreshold(v_thr, spk, thrGain, thrLeak, rho_b) ==
    IF rho_b > 0
    THEN LET dthr == SumOver(spk, DOMAIN spk) - 1
         IN [u \in DOMAIN v_thr |-> Max(v_thr[u] + dthr * rho_b, ThrFloor)]
    ELSE [u \in DOMAIN v_thr |->
             LET thr_gain == spk[u] * thrGain
                 thr_leak == Mul(v_thr[u], thrLeak)
             IN v_thr[u] + thr_gain - thr_leak]

\* faulty variant: the counter of a spiking unit not cleared
UpdateRefract_uncleared(rfr, dt, spk) ==
    [u \in DOMAIN rfr |-> rfr[u] + dt]

UpdateRefract(rfr, dt, spk) ==
    [u \in DOMAIN rfr |-> (rfr[u] + dt) * (1 - spk[u])]

\* faulty variant: refractory units masked out instead of pinned
PinSpikes_masked(spk, mask, sticky_spikes) ==
    IF sticky_spikes = TRUE
    THEN [u \in DOMAIN spk |-> spk[u] * mask[u]]
    ELSE spk

PinSpikes(spk, mask, sticky_spikes) ==
    IF sticky_spikes = TRUE
    THEN [u \in DOMAIN spk |-> spk[u] * mask[u] + (1 - mask[u])]
    ELSE spk

\* the four values run_cell returns, and (raw) the spike vector of line 126
\* before the sticky override
run_cell(dt, j, v, v_thr, tau_m, rfr, refract_T, thrGain, thrLeak, rho_b, sticky_spikes, vmin) ==
    LET mask   == RefractoryMask(rfr, refract_T)
        v_int  == FloorVoltage(Integrate(dt, j, v, tau_m, mask), vmin)
        spk    == EmitSpikes(v_int, v_thr)
    IN [new_voltage |-> Hyperpolarize(spk, v_int),
        spikes      |-> PinSpikes(spk, mask, sticky_spikes),
        new_thr     |-> UpdateThreshold(v_thr, spk, thrGain, thrLeak, rho_b),
        _rfr        |-> UpdateRefract(rfr, dt, spk),
        raw         |-> spk]

\* ---------------------------------------------------------------- SLIFCell
v_min == -3000
WMin == 25
WMax == 1000

Dirs == {"dirA"}
file_name(directory, name) == <<directory, name, ".npz">>

\* faulty variant: the uniform entries without the hollow mask
HollowMatrices_full(n, wdraws) ==
    [(1 .. n) \X (1 .. n) -> Uniform(wdraws, WMin, WMax)]

\* __init__, lines 306-311: uniform entries times the hollow mask 1 - eye
HollowMatrices(n, wdraws) ==
    {[p \in (1 .. n) \X (1 .. n) |-> MV1[p] * (1 - (IF p[1] = p[2] THEN 1 ELSE 0))] :
        MV1 \in [(1 .. n) \X (1 .. n) -> Uniform(wdraws, WMin, WMax)]}

\* __init__, lines 326-328: thr + uniform(-thr_jitter, thr_jitter)
SampledThresholds(n, thr, thr_jitter, tdraws) ==
    [(1 .. n) -> {thr + x : x \in Uniform(tdraws, -thr_jitter, thr_jitter)}]

\* faulty variant: reset restores the baseline whatever thr_persist says
ResetThreshold_restored(thr_persist, thr, thr0) == thr0

\* faulty variant: reset never restores the baseline
ResetThreshold_kept(thr_persist, thr, thr0) == thr

\* reset, lines 364-365
ResetThreshold(thr_persist, thr, thr0) ==
    IF thr_persist = FALSE THEN thr0 ELSE thr

\* faulty variant: refract_T added to the counters in place of a fresh array
ResetRefract_accumulated(n, refract_T) ==
    [u \in 1 .. n |-> refract[u] + refract_T]

\* reset, line 359
ResetRefract(n, refract_T) == [u \in 1 .. n |-> 0 + refract_T]

\* faulty variant: save always writes the live threshold
SavedThreshold_live(thr_persist, thr, thr0) == thr

\* save, lines 369-372: the array handed to savez
SavedThreshold(thr_persist, thr, thr0) ==
    IF thr_persist = FALSE THEN thr0 ELSE thr

\* faulty variant: the supplied current left in the compartment
StoredCurrent_supplied(j_supplied, j_curr) == j_supplied

\* advance_state, line 347: what is written back into compartment 'j'
StoredCurrent(j_supplied, j_curr) == j_curr

\* faulty variant: reset leaves the supplied current in its compartment
ResetCurrent_kept(j) == j

\* reset, line 360
ResetCurrent(j) == None

\* the body of reset, on a cell whose threshold and baseline are thr and thr0
ResetTo(c, thr, thr0) ==
    /\ voltage' = [u \in 1 .. c.n_units |-> 0]
    /\ refract' = ResetRefract(c.n_units, c.refract_T)
    /\ current' = ResetCurrent(current)
    /\ surrogate' = None
    /\ timeOfLastSpike' = [u \in 1 .. c.n_units |-> 0]
    /\ spikes' = [u \in 1 .. c.n_units |-> 0]
    /\ threshold' = ResetThreshold(c.thr_persist, thr, thr0)

\* __init__ with directory = None
InitWith(Configs, tdraws, wdraws) ==
    \E c \in Configs :
        /\ cfg = c
        /\ inh_weights \in HollowMatrices(c.n_units, wdraws)
        /\ threshold0 \in SampledThresholds(c.n_units, c.thr, c.thr_jitter, tdraws)
        /\ threshold = threshold0
        /\ frozen = threshold0
        /\ voltage = [u \in 1 .. c.n_units |-> 0]
        /\ refract = [u \in 1 .. c.n_units |-> 0 + c.refract_T]
        /\ current = None
        /\ surrogate = None
        /\ timeOfLastSpike = [u \in 1 .. c.n_units |-> 0]
        /\ spikes = [u \in 1 .. c.n_units |-> 0]
        /\ crossed = [u \in 1 .. c.n_units |-> 0]
        /\ disk = << >>
        /\ clock = 0
        /\ lastOp = "init"
        /\ nsteps = 0
        /\ ncells = 1
        /\ j_in = None
        /\ nresets = 1
        /\ call = None

\* the current setter, lines 235-237: the caller supplies the input current
SetCurrent(inp) ==
    /\ current' = inp
    /\ lastOp' = "set"
    /\ nresets' = 0
    /\ UNCHANGED <<call, cfg, inh_weights, threshold0, threshold, voltage, spikes,
                   refract, timeOfLastSpike, surrogate, disk, clock, nsteps,
                   ncells, crossed, frozen, j_in>>

\* advance_state(t, dt) with t = clock.  Lines 339-342 fill in spikes and
\* refract when they are None; reset, which __init__ ends with, always sets
\* both, so the two branches are never taken.
advance_state(dt) ==
    /\ current # None
    /\ LET j_curr == modify_current(current, spikes, inh_weights, cfg.R_m, cfg.inh_R)
           out    == run_cell(dt, j_curr, voltage, threshold, cfg.tau_m, refract,
                              cfg.refract_T, cfg.thrGain, cfg.thrLeak, cfg.rho_b,
                              cfg.sticky_spikes, {v_min})
       IN /\ current' = StoredCurrent(current, j_curr)
          /\ surrogate' = apply_surrogate_dfx(j_curr, c1, c2)
          /\ voltage' = out.new_voltage
          /\ spikes' = out.spikes
          /\ threshold' = out.new_thr
          /\ refract' = out._rfr
          /\ timeOfLastSpike' = update_times(clock, out.spikes, timeOfLastSpike)
          /\ crossed' = out.raw
    /\ clock' = clock + dt
    /\ nsteps' = nsteps + 1
    /\ lastOp' = "step"
    /\ j_in' = current
    /\ nresets' = 0
    /\ UNCHANGED <<call, cfg, inh_weights, threshold0, disk, ncells, frozen>>

\* advance_state on an unset current: None * R_m raises in modify_current
advance_state_error ==
    /\ current = None
    /\ lastOp' = "step_error"
    /\ nsteps' = nsteps + 1
    /\ nresets' = 0
    /\ UNCHANGED <<call, cfg, inh_weights, threshold0, threshold, voltage, spikes,
                   refract, timeOfLastSpike, current, surrogate, disk, clock,
                   ncells, crossed, frozen, j_in>>

reset ==
    /\ ResetTo(cfg, threshold, threshold0)
    /\ crossed' = Zeros
    /\ lastOp' = "reset"
    /\ j_in' = None
    /\ nresets' = IF nresets < 2 THEN nresets + 1 ELSE 2
    /\ UNCHANGED <<call, cfg, inh_weights, threshold0, disk, clock, nsteps, ncells,
                   frozen>>

save(directory) ==
    /\ disk' = [f \in DOMAIN disk \cup {file_name(directory, cfg.name)} |->
                   IF f = file_name(directory, cfg.name)
                   THEN [threshold |-> SavedThreshold(cfg.thr_persist, threshold,
                                                      threshold0)]
                   ELSE disk[f]]
    /\ lastOp' = "save"
    /\ nresets' = 0
    /\ UNCHANGED <<call, cfg, inh_weights, threshold0, threshold, voltage, spikes,
                   refract, timeOfLastSpike, current, surrogate, clock, nsteps,
                   ncells, crossed, frozen, j_in>>

\* a snapshot file that lost its content: an archive without 'threshold'
Corrupt == [garbage |-> 0]
\* jnp.load(file_name) and data['threshold'] succeed
Readable(f) == f \in DOMAIN disk /\ "threshold" \in DOMAIN disk[f]

\* faulty variant: a failed load falls back to the base threshold thr
AfterFailedLoad_fallback(thr) == [u \in DOMAIN thr |-> cfg.thr]

\* load, lines 376-377, when the read raises: self.threshold keeps its value
AfterFailedLoad(thr) == thr

\* faulty variant: load leaves the old baseline in place
LoadedBaseline_stale(thr) == threshold0

\* load, line 378: the baseline re-frozen from the array just read
LoadedBaseline(thr) == thr

load(directory) ==
    /\ Readable(file_name(directory, cfg.name))
    /\ LET data == disk[file_name(directory, cfg.name)]
       IN /\ threshold' = data.threshold
          /\ threshold0' = LoadedBaseline(data.threshold)
          /\ frozen' = data.threshold
    /\ lastOp' = "load"
    /\ nresets' = 0
    /\ UNCHANGED <<call, cfg, inh_weights, voltage, spikes, refract, timeOfLastSpike,
                   current, surrogate, disk, clock, nsteps, ncells, crossed, j_in>>

\* load of a file that is missing or corrupt: line 376 or the lookup of line
\* 377 raises, and the exception leaves load before anything is assigned
load_error(directory) ==
    /\ ~Readable(file_name(directory, cfg.name))
    /\ threshold' = AfterFailedLoad(threshold)
    /\ lastOp' = "load_error"
    /\ nresets' = 0
    /\ UNCHANGED <<call, cfg, inh_weights, threshold0, voltage, spikes,
                   refract, timeOfLastSpike, current, surrogate, disk, clock,
                   nsteps, ncells, crossed, frozen, j_in>>

\* __init__ of a further cell of the same name and arguments, directory = None
construct(tdraws, wdraws) ==
    /\ ncells < MaxCells
    /\ inh_weights' \in HollowMatrices(cfg.n_units, wdraws)
    /\ threshold0' \in SampledThresholds(cfg.n_units, cfg.thr, cfg.thr_jitter, tdraws)
    /\ frozen' = threshold0'
    /\ ResetTo(cfg, threshold0', threshold0')
    /\ crossed' = Zeros
    /\ clock' = 0
    /\ ncells' = ncells + 1
    /\ lastOp' = "init"
    /\ j_in' = None
    /\ nresets' = 1
    /\ UNCHANGED <<call, cfg, disk, nsteps>>

\* __init__ of a further cell of the same name and arguments from a directory
construct_from(directory, wdraws) ==
    /\ ncells < MaxCells
    /\ Readable(file_name(directory, cfg.name))
    /\ inh_weights' \in HollowMatrices(cfg.n_units, wdraws)
    /\ LET data == disk[file_name(directory, cfg.name)]
       IN /\ threshold0' = LoadedBaseline(data.threshold)
          /\ frozen' = data.threshold
          /\ ResetTo(cfg, data.threshold, threshold0')
    /\ crossed' = Zeros
    /\ clock' = 0
    /\ ncells' = ncells + 1
    /\ lastOp' = "init_load"
    /\ j_in' = None
    /\ nresets' = 1
    /\ UNCHANGED <<call, cfg, disk, nsteps>>

\* __init__ from a directory whose file is missing or corrupt: load, line 331,
\* raises; the constructor is left before reset and no cell is returned, so
\* the cells that exist are as they were
construct_error(directory) ==
    /\ ncells < MaxCells
    /\ ~Readable(file_name(directory, cfg.name))
    /\ threshold' = AfterFailedLoad(threshold)
    /\ lastOp' = "init_error"
    /\ nresets' = 0
    /\ UNCHANGED <<call, cfg, inh_weights, threshold0, voltage, spikes,
                   refract, timeOfLastSpike, current, surrogate, disk, clock,
                   nsteps, ncells, crossed, frozen, j_in>>

\* the file system: a snapshot that was written is damaged
damage(directory) ==
    /\ file_name(directory, cfg.name) \in DOMAIN disk
    /\ disk' = [disk EXCEPT ![file_name(directory, cfg.name)] = Corrupt]
    /\ lastOp' = "damage"
    /\ nresets' = 0
    /\ UNCHANGED <<call, cfg, inh_weights, threshold0, threshold, voltage, spikes,
                   refract, timeOfLastSpike, current, surrogate, clock, nsteps,
                   ncells, crossed, frozen, j_in>>

\* ------------------------------------------------------------ environment
\* the defaults of __init__, lines 288-290, for a two-unit cell
Defaults ==
    [name |-> "z0", n_units |-> 2, tau_m |-> 2000, R_m |-> 1000, thr |-> 500,
     inh_R |-> 0, thr_persist |-> FALSE, thrGain |-> 0, thrLeak |-> 0,
     rho_b |-> 0, refract_T |-> 0, sticky_spikes |-> FALSE, thr_jitter |-> 50]

\* currents a caller supplies per unit: strongly negative, strong
JSet == {-8000, 4000}
DtSet == {1000}

\* the simulation loop of a caller: supply a current, step, reset
Drive(maxsteps) ==
    \/ \E inp \in [Units -> JSet] : SetCurrent(inp)
    \/ \E dt \in DtSet : nsteps < maxsteps /\ advance_state(dt)
    \/ nsteps < maxsteps /\ advance_state_error
    \/ reset

\* snapshots and further cells of the same name
Persist(tdraws, wdraws) ==
    \/ \E d \in Dirs : save(d)
    \/ \E d \in Dirs : load(d)
    \/ \E d \in Dirs : load_error(d)
    \/ construct(tdraws, wdraws)
    \/ \E d \in Dirs : construct_from(d, wdraws)

\* what goes wrong around a snapshot
Faults ==
    \/ \E d \in Dirs : construct_error(d)
    \/ \E d \in Dirs : damage(d)

\* life cycle: persistence varies, thresholds adapt
Configs ==
    {[Defaults EXCEPT !.thr_persist = p, !.thrGain = 100, !.thrLeak = 100,
                      !.refract_T = 1000] : p \in BOOLEAN}

Init == InitWith(Configs, "extremes", "least")
Next == Drive(MaxLifeSteps) \/ Persist("extremes", "least")
Spec == Init /\ [][Next]_vars

\* dynamics: refractory period, sticky spikes, threshold policy and base vary
ConfigsDyn ==
    {[Defaults EXCEPT !.refract_T = T, !.sticky_spikes = k, !.rho_b = b,
                      !.thr = h, !.thrGain = 100, !.thrLeak = 100] :
        T \in {0, 1000, 2000}, k \in BOOLEAN, b \in {0, 300}, h \in {50, 500}}

InitDyn == InitWith(ConfigsDyn, "extremes", "least")
NextDyn == Drive(MaxSteps)
SpecDyn == InitDyn /\ [][NextDyn]_vars

\* scenario B: two units under lateral inhibition
ConfigsB ==
    {[Defaults EXCEPT !.inh_R = 6000, !.R_m = r, !.sticky_spikes = k,
                      !.refract_T = 1000] :
        r \in {1000, 2000}, k \in BOOLEAN}

InitB == InitWith(ConfigsB, "extremes", "extremes")
NextB == Drive(MaxSteps)
SpecB == InitB /\ [][NextB]_vars

\* scenario A: one unit, tau_m = 5, thr = 0.5, refract_T = 1, driven with the
\* constant current 1.0 at dt = 1
StepsA == 6
ConfigsA ==
    {[Defaults EXCEPT !.n_units = 1, !.tau_m = 5000, !.R_m = 1000, !.thr = 500,
                      !.refract_T = 1000]}

InitA == InitWith(ConfigsA, "every", "least")
NextA ==
    \/ SetCurrent([u \in Units |-> 1000])
    \/ nsteps < StepsA /\ advance_state(1000)
SpecA == InitA /\ [][NextA]_vars

\* cells of one, two and three units under lateral inhibition, through their
\* whole life cycle, driven with one strong current; the matrix entries are
\* drawn at both ends of their range
StepsW == 1
ConfigsW ==
    {[Defaults EXCEPT !.n_units = n, !.inh_R = 6000, !.refract_T = 1000] :
        n \in {1, 2, 3}}
InitW == InitWith(ConfigsW, "least", "extremes")
NextW ==
    \/ SetCurrent([u \in Units |-> 4000])
    \/ \E dt \in DtSet : nsteps < StepsW /\ advance_state(dt)
    \/ reset
    \/ Persist("least", "extremes")
SpecW == InitW /\ [][NextW]_vars

\* snapshots that go missing or corrupt: an adapting two-unit cell driven with
\* one strong current, saved, damaged, loaded and constructed from
ConfigsIO ==
    {[Defaults EXCEPT !.thr_persist = p, !.thrGain = 100, !.thrLeak = 100] :
        p \in BOOLEAN}
InitIO == InitWith(ConfigsIO, "extremes", "least")
NextIO ==
    \/ SetCurrent([u \in Units |-> 4000])
    \/ \E dt \in DtSet : nsteps < MaxLifeSteps /\ advance_state(dt)
    \/ reset
    \/ Persist("extremes", "least")
    \/ Faults
SpecIO == InitIO /\ [][NextIO]_vars

\* cells built with the default refract_T = 0, with and without sticky spikes,
\* stepped with dt = 0, 0.5 and 1; the threshold gains 0.1 with every spike
StepsZ == 2
DtZ == {0, 500, 1000}
ConfigsZ ==
    {[Defaults EXCEPT !.sticky_spikes = k, !.thr = h, !.thrGain = 100] :
        k \in BOOLEAN, h \in {50, 500}}
InitZ == InitWith(ConfigsZ, "extremes", "least")
NextZ ==
    \/ \E inp \in [Units -> JSet] : SetCurrent(inp)
    \/ \E dt \in DtZ : nsteps < StepsZ /\ advance_state(dt)
    \/ reset
SpecZ == InitZ /\ [][NextZ]_vars

\* a caller of the module-level function apply_surrogate_dfx, lines 24-50
call_surrogate(j, cc1, cc2) ==
    /\ call' = [j |-> j, c1 |-> cc1, c2 |-> cc2,
                out |-> apply_surrogate_dfx(j, cc1, cc2)]
    /\ UNCHANGED <<cfg, inh_weights, threshold0, threshold, voltage, spikes,
                   refract, timeOfLastSpike, current, surrogate, disk, clock,
                   lastOp, nsteps, ncells, j_in, crossed, nresets, frozen>>

\* the surrogate on its own: currents of either sign from 0.001 up to
\* 12 * 10^MaxExp10 / 1000, the default coefficients and 1.0.  No current is
\* drawn with 85.3 < c2 * j <= 88.7, where the result lies below the smallest
\* normal float32 and a build that flushes subnormals returns 0.
MaxExp10 == 5
JSur == {x * 10 ^ e : x \in {-12, -5, -2, -1, 0, 1, 2, 5, 12}, e \in 0 .. MaxExp10}
C1Set == {c1, Scale}
C2Set == {c2, Scale}
InitSur == InitWith(ConfigsA, "least", "least")
NextSur == \E j \in [Units -> JSur], cc1 \in C1Set, cc2 \in C2Set : call_surrogate(j, cc1, cc2)
SpecSur == InitSur /\ [][NextSur]_vars

\* ------------------------------------------------------------------ claims
\* a transition that is a completed advance_state call, and its dt
IsStep == lastOp' = "step" /\ nsteps' = nsteps + 1
StepDt == clock' - clock

\* v + (-v + j) * (dt / tau_m) for unit u over a step, j being the modulated
\* current the step stored
Leaky(u) == voltage[u] + Mul((-voltage[u]) + current'[u], Div(StepDt, cfg.tau_m))

C2_StickySpikes ==
    cfg.sticky_spikes = TRUE =>
        \A u \in Units : refract[u] < cfg.refract_T => spikes[u] = 1

\* a unit pinned at 1 in a step in which it did not cross its threshold
C2_Witness ==
    /\ cfg.sticky_spikes = TRUE
    /\ lastOp = "step"
    /\ \E u \in Units :
          /\ 0 < refract[u] /\ refract[u] < cfg.refract_T
          /\ crossed[u] = 0 /\ spikes[u] = 1

\* C3 as stated: with rho_b > 0 the threshold of every unit is never below
\* 0.025.
C3_FloorAlways ==
    cfg.rho_b > 0 => \A u \in Units : threshold[u] >= ThrFloor

\* C3 amended: with rho_b > 0 the threshold of every unit is at least 0.025
\* in the state right after every advance_state step.
C3_FloorAfterStep ==
    (cfg.rho_b > 0 /\ lastOp = "step") =>
        \A u \in Units : threshold[u] >= ThrFloor

\* a threshold that came down from a baseline near 0.5 and was held at the floor
C3_Witness ==
    /\ cfg.rho_b > 0
    /\ lastOp = "step"
    /\ \E u \in Units : threshold[u] = ThrFloor /\ threshold0[u] >= 450

\* C4: with thr_persist = false, Reset makes the threshold equal to the
\* baseline frozen at construction or at the last load.
C4_ResetRestoresBaseline ==
    (lastOp = "reset" /\ cfg.thr_persist = FALSE) => threshold = frozen

\* a reset of the first cell after steps (each of which moves the threshold,
\* thrLeak being 0.1) and no load: the threshold is the constructed baseline
C4_Witness ==
    /\ lastOp = "reset"
    /\ cfg.thr_persist = FALSE
    /\ ncells = 1
    /\ nsteps = MaxLifeSteps
    /\ DOMAIN disk = {}
    /\ threshold = frozen

\* C5 as stated: advance_state does not change the value held in the current
\* input slot.
C5_CurrentReadOnly ==
    [][IsStep => current' = current]_vars

\* C5 amended: advance_state writes the modulated current, j * R_m minus
\* (when inh_R > 0) inh_R times the product of the stored spikes with the
\* inhibitory matrix, back into the current input slot.
C5_CurrentOverwritten ==
    [][IsStep =>
          current' = [u \in Units |->
                         Mul(current[u], cfg.R_m)
                         - (IF cfg.inh_R > 0
                            THEN Mul(SumOver([i \in Units |->
                                        spikes[i] * inh_weights[<<i, u>>]], Units),
                                     cfg.inh_R)
                            ELSE 0)]]_vars

\* after a step the slot no longer holds what the caller supplied
C5_Witness ==
    /\ lastOp = "step"
    /\ current # j_in

\* C6 as stated: no floor is applied, so a non-refractory, non-spiking unit
\* ends a step at v + (-v + j) * (dt / tau_m), however negative j.
C6_NoFloor ==
    [][IsStep =>
          \A u \in Units :
              (refract[u] >= cfg.refract_T /\ crossed'[u] = 0) =>
                  voltage'[u] = Leaky(u)]_vars

\* C6 amended: the cell always applies the floor v_min = -3, so such a unit
\* ends a step at max(-3, v + (-v + j) * (dt / tau_m)).
C6_FixedFloor ==
    [][IsStep =>
          \A u \in Units :
              (refract[u] >= cfg.refract_T /\ crossed'[u] = 0) =>
                  voltage'[u] = Max(v_min, Leaky(u))]_vars

\* a unit driven below the floor and held at it
C6_Witness ==
    /\ lastOp = "step"
    /\ \E u \in Units :
          /\ crossed[u] = 0
          /\ voltage[u] = v_min
          /\ j_in[u] < v_min

\* C7: after load, or construction from a directory, the threshold and the
\* frozen baseline of the cell both equal the array in the file save wrote.
C7_RoundTrip ==
    lastOp \in {"load", "init_load"} =>
        \E d \in Dirs :
            /\ file_name(d, cfg.name) \in DOMAIN disk
            /\ threshold = disk[file_name(d, cfg.name)].threshold
            /\ threshold0 = disk[file_name(d, cfg.name)].threshold

\* a second cell that has just loaded what an adapted, persistent cell saved
C7_Witness ==
    /\ lastOp \in {"load", "init_load"}
    /\ ncells = 2
    /\ cfg.thr_persist = TRUE
    /\ \E d \in Dirs :
          /\ file_name(d, cfg.name) \in DOMAIN disk
          /\ threshold = disk[file_name(d, cfg.name)].threshold
          /\ \E u \in Units : threshold[u] \notin {450, 549}

\* C8: a Reset made right after a Reset changes no state variable of the cell.
C8_ResetIdempotent ==
    [][(lastOp = "reset" /\ lastOp' = "reset") =>
          /\ voltage' = voltage
          /\ spikes' = spikes
          /\ threshold' = threshold
          /\ refract' = refract
          /\ timeOfLastSpike' = timeOfLastSpike
          /\ current' = current
          /\ surrogate' = surrogate
          /\ threshold0' = threshold0
          /\ inh_weights' = inh_weights]_vars

\* two resets in a row on a cell that has been stepped
C8_Witness ==
    /\ lastOp = "reset"
    /\ nresets = 2
    /\ nsteps > 0

\* the unit of scenario A has not spiked yet: its counter has only grown
NotYetSpiked == refract[1] = cfg.refract_T + clock

\* C9 as stated: in scenario A the voltage rises strictly at every step until
\* it exceeds 0.5; in that step and not before, spike = 1 is emitted and the
\* voltage is 0 after that same step.
C9_SpikeAtHalf ==
    [][(IsStep /\ NotYetSpiked) =>
          /\ Leaky(1) > voltage[1]
          /\ spikes'[1] = 1 <=> Leaky(1) > 500
          /\ spikes'[1] = 1 => voltage'[1] = 0
          /\ spikes'[1] = 0 => voltage'[1] = Leaky(1)]_vars

\* C9 amended: the voltage rises strictly at every step until it exceeds the
\* unit's threshold, which is thr plus the construction jitter, a value in
\* [0.45, 0.55); in that step and not before, spike = 1 is emitted and the
\* voltage is 0 after that same step.
C9_SpikeAtThreshold ==
    [][(IsStep /\ NotYetSpiked) =>
          /\ threshold[1] \in 450 .. 549
          /\ Leaky(1) > voltage[1]
          /\ spikes'[1] = 1 <=> Leaky(1) > threshold[1]
          /\ spikes'[1] = 1 => voltage'[1] = 0
          /\ spikes'[1] = 0 => voltage'[1] = Leaky(1)]_vars

\* the first spike, emitted on the third step by a unit whose threshold is
\* below the 0.488 the voltage reaches there
C9_Witness ==
    /\ lastOp = "step"
    /\ nsteps = 3
    /\ spikes[1] = 1
    /\ voltage[1] = 0
    /\ threshold[1] < 488

\* C10: in a two-unit cell with inhibit_R = 6, when exactly one unit has
\* spike 1, the next step gives the other unit a modulated current strictly
\* below j * R_m and gives the spiking unit exactly j * R_m.
C10_LateralInhibition ==
    [][(IsStep /\ cfg.n_units = 2 /\ cfg.inh_R = 6000) =>
          \A i, w \in Units :
              (i # w /\ spikes[i] = 1 /\ spikes[w] = 0) =>
                  /\ current'[w] < Mul(current[w], cfg.R_m)
                  /\ current'[i] = Mul(current[i], cfg.R_m)]_vars

\* a step that reduced the current of one unit only: the other unit alone had
\* spiked
C10_Witness ==
    /\ lastOp = "step"
    /\ cfg.inh_R = 6000
    /\ \E i, w \in Units :
          /\ i # w
          /\ current[w] < Mul(j_in[w], cfg.R_m)
          /\ current[i] = Mul(j_in[i], cfg.R_m)

\* sech(x) on the grid, as lines 47-48 compute it
Sech(x) == Div(Scale, (Exp(x) + Exp(-x)) \div 2)
Abs(x) == IF x >= 0 THEN x ELSE -x

\* C11 as stated: apply_surrogate_dfx(j, c1, c2) returns c1*c2*sech(c2*j)^2
\* where j > 0 and 0 where j <= 0 (to within one grid step).
C11_SechSquared ==
    call # None =>
        \A u \in DOMAIN call.j :
            LET sech == Sech(Mul(call.j[u], call.c2))
                claimed == IF call.j[u] > 0
                           THEN Mul(Mul(call.c1, call.c2), Mul(sech, sech))
                           ELSE 0
            IN Abs(call.out[u].fix - claimed) <= 1

\* C15 as stated: for coefficients c1, c2 > 0 the output of the surrogate is
\* exactly 0 wherever j <= 0 and strictly positive wherever j > 0, currents of
\* large magnitude included.
C15_SignOfSurrogate ==
    call # None =>
        \A u \in DOMAIN call.j :
            /\ call.j[u] <= 0 => call.out[u].cls = "zero"
            /\ call.j[u] > 0 => call.out[u].cls = "pos"

\* the inhibitory matrix has a zero diagonal and entries in [0.025, 1.0) off it
Hollow(W) ==
    \A p \in DOMAIN W :
        IF p[1] = p[2] THEN W[p] = 0 ELSE WMin <= W[p] /\ W[p] < WMax

\* C12: for every number of units the inhibitory matrix of a constructed cell
\* has an exactly zero diagonal and off-diagonal entries in [0.025, 1.0), and
\* no operation on the cell (advance_state, reset, save, load, a failed call)
\* changes it; only the construction of a cell draws a matrix.
C12_InhibitoryMatrix ==
    /\ Hollow(inh_weights)
    /\ DOMAIN inh_weights = Units \X Units
    /\ [][/\ Hollow(inh_weights')
          /\ lastOp' \notin {"init", "init_load"} => inh_weights' = inh_weights]_vars

C12_Witness ==
    /\ cfg.n_units = 3
    /\ lastOp = "load"
    /\ nsteps = StepsW
    /\ \E p \in DOMAIN inh_weights : inh_weights[p] = WMax - 1
    /\ \E p \in DOMAIN inh_weights : inh_weights[p] = WMin

\* the cell state an operation other than a step or a reset leaves alone
cellState ==
    <<inh_weights, threshold0, threshold, voltage, spikes, refract,
      timeOfLastSpike, current, surrogate>>

\* C13: with thr_persist = true, reset leaves the threshold as it was, while
\* voltage, spikes and time-of-last-spike are zeroed and every refractory
\* counter is set to refract_T.
C13_ResetKeepsThreshold ==
    [][(lastOp' = "reset" /\ cfg.thr_persist) =>
          /\ threshold' = threshold
          /\ voltage' = Zeros
          /\ spikes' = Zeros
          /\ timeOfLastSpike' = Zeros
          /\ refract' = [u \in Units |-> cfg.refract_T]]_vars

C13_Witness ==
    /\ lastOp = "reset"
    /\ cfg.thr_persist
    /\ nsteps = MaxLifeSteps
    /\ \A u \in Units : threshold[u] # threshold0[u]
    /\ clock > 0

\* C14: save writes the frozen baseline when thr_persist = false and the live
\* threshold when thr_persist = true, and changes nothing of the cell.
C14_SaveWritesPolicy ==
    [][lastOp' = "save" =>
          /\ \E d \in Dirs :
                 /\ file_name(d, cfg.name) \in DOMAIN disk'
                 /\ disk'[file_name(d, cfg.name)] =
                        [threshold |-> IF cfg.thr_persist THEN threshold
                                       ELSE threshold0]
          /\ UNCHANGED cellState]_vars

C14_Witness ==
    /\ lastOp = "save"
    /\ ~cfg.thr_persist
    /\ \A u \in Units : threshold[u] # threshold0[u]
    /\ \E d \in Dirs : disk[file_name(d, cfg.name)].threshold = threshold0

\* C16: a load of a missing or corrupt snapshot file, called directly or by
\* the constructor, ends in an error handed to the caller: a load completes
\* only on a readable file, and a failed one samples no fallback and leaves
\* threshold and frozen baseline (and the rest of the cell) as they were.
C16_LoadFailure ==
    [][/\ lastOp' \in {"load", "init_load"} =>
              \E d \in Dirs : Readable(file_name(d, cfg.name))
       /\ lastOp' \in {"load_error", "init_error"} =>
              UNCHANGED <<cellState, frozen, ncells>>]_vars

C16_Witness ==
    /\ lastOp \in {"load_error", "init_error"}
    /\ \E d \in Dirs : file_name(d, cfg.name) \in DOMAIN disk /\
                       disk[file_name(d, cfg.name)] = Corrupt
    /\ \A u \in Units : threshold[u] # threshold0[u]
    /\ \A u \in Units : threshold[u] # cfg.thr

\* C17 as stated: in every configuration, sticky_spikes = true included, the
\* time-of-last-spike of a unit is the t of the most recent step in which the
\* unit crossed its threshold, and 0 if it has not since the last reset: a
\* step records its t for the units that cross in it and leaves the value of
\* every other unit unchanged, and a reset zeroes it.
C17_TimeOfLastCrossing ==
    [][/\ IsStep =>
              \A u \in Units :
                  timeOfLastSpike'[u] =
                      IF crossed'[u] = 1 THEN clock ELSE timeOfLastSpike[u]
       /\ lastOp' \in {"reset", "init"} => timeOfLastSpike' = Zeros]_vars

\* C18: after every step the stored voltage of a unit is 0 if the unit
\* crossed its threshold in the step or if its refractory counter was below
\* refract_T when the step began; every other unit keeps its newly integrated
\* value (the Euler update, held at the floor of the cell).
C18_VoltageGating ==
    [][IsStep =>
          \A u \in Units :
              voltage'[u] =
                  IF crossed'[u] = 1 \/ refract[u] < cfg.refract_T
                  THEN 0
                  ELSE Max(v_min, Leaky(u))]_vars

\* one unit held at 0 inside its refractory window under a strong current,
\* while the other integrates
C18_Witness ==
    /\ lastOp = "step"
    /\ \E u, w \in Units :
          /\ crossed[u] = 0 /\ 0 < refract[u] /\ refract[u] < cfg.refract_T
          /\ j_in[u] > 0 /\ voltage[u] = 0
          /\ crossed[w] = 0 /\ voltage[w] # 0

\* C19: the two threshold policies exclude each other.  With rho_b > 0 every
\* unit's threshold becomes max(thr + (k - 1) * rho_b, 0.025), k being the
\* number of units that crossed their threshold in the step, and thrGain and
\* thrLeak play no part; with rho_b <= 0 it becomes thr + s * thrGain -
\* thr * thrLeak, s being the unit's own crossing.
C19_ThresholdPolicies ==
    [][IsStep =>
          LET k == Cardinality({w \in Units : crossed'[w] = 1})
          IN \A u \in Units :
                 threshold'[u] =
                     IF cfg.rho_b > 0
                     THEN Max(threshold[u] + (k - 1) * cfg.rho_b, ThrFloor)
                     ELSE threshold[u] + crossed'[u] * cfg.thrGain
                          - Mul(threshold[u], cfg.thrLeak)]_vars

\* a first step under the sparsity policy in which both units cross: both
\* thresholds go up by rho_b, and the gain and leak of the cell leave no trace
C19_Witness ==
    /\ lastOp = "step"
    /\ nsteps = 1
    /\ cfg.rho_b > 0 /\ cfg.thrGain > 0 /\ cfg.thrLeak > 0
    /\ \A u \in Units : crossed[u] = 1 /\ threshold[u] = threshold0[u] + cfg.rho_b

\* C20: with inhibit_R > 0 the modulated current of a step is the supplied
\* current times R_m, less inhibit_R times the product of the spike vector
\* the previous step stored (pinned values included) with the inhibitory
\* matrix; the spikes of the step itself play no part, and in the first step
\* after construction or reset the inhibition term is zero.
C20_InhibitionOrdering ==
    [][(IsStep /\ cfg.inh_R > 0) =>
          \A u \in Units :
              /\ Mul(current[u], cfg.R_m) - current'[u] =
                     Mul(SumOver([i \in Units |-> spikes[i] * inh_weights[<<i, u>>]],
                                 Units), cfg.inh_R)
              /\ j_in = None => current'[u] = Mul(current[u], cfg.R_m)]_vars

\* a step that inhibited unit w on account of the spike unit i had stored,
\* although i does not spike in this step
C20_Witness ==
    /\ lastOp = "step"
    /\ cfg.inh_R > 0
    /\ \E i, w \in Units :
          /\ i # w
          /\ spikes[i] = 0
          /\ current[w] < Mul(j_in[w], cfg.R_m)

C22_StepWithoutCurrent ==
    /\ current = None
    /\ [][/\ lastOp' \in {"reset", "init", "init_load"} => current' = None
          /\ IsStep => current # None
          /\ lastOp' = "step_error" =>
                 /\ current = None
                 /\ UNCHANGED cellState]_vars

\* a failed step on a cell that was stepped and then reset: the adapted
\* threshold, the zeroed voltage and the counters are as reset left them
C22_Witness ==
    /\ lastOp = "step_error"
    /\ current = None
    /\ clock > 0
    /\ cfg.thr_persist
    /\ voltage = Zeros /\ spikes = Zeros /\ timeOfLastSpike = Zeros
    /\ refract = [u \in Units |-> cfg.refract_T]
    /\ \A u \in Units : threshold[u] # threshold0[u]

====
